---------------------------- MODULE Spec2Model ----------------------------
(***************************************************************************)
(* Game session engine of the trick-taking card server: deck and deal,     *)
(* move validation, trick resolution, the turn/timeout orchestrator, the   *)
(* autoplay heuristic and the per-recipient state sanitizer.               *)
(*                                                                         *)
(* Spec        the server as a state machine: one room, its game, the      *)
(*             turn / grace / trick-resolution timers and the messages     *)
(*             emitted by the last handler.                                *)
(* SpecValid, SpecWinner, SpecAuto, SpecSanitize                           *)
(*             the pure functions applied to inputs drawn from bounded     *)
(*             sets.                                                       *)
(***************************************************************************)
EXTENDS Integers, Sequences, FiniteSets, TLC

VARIABLES
    room,               \* rooms: the one room of the model, NoRoom or RoomDeleted
    issued,             \* number of user ids (uuids) handed out so far
    game,               \* games: the room's GameState, or NoGame
    playerTimers,       \* players with a pending turn timer
    reconnectionTimers, \* users with a pending reconnection grace timer
    resolving,          \* number of pending trick-resolution timeouts
    crashed,            \* TRUE once a handler threw an uncaught exception
    starts,             \* number of accepted start-game requests
    disconnects,        \* number of disconnect events
    reconnects,         \* number of reconnect-player requests
    outbox,             \* the messages and log lines emitted by the last handler
    ret                 \* the last application of a pure function (function specifications)

vars == <<room, issued, game, playerTimers, reconnectionTimers, resolving,
          crashed, starts, disconnects, reconnects, outbox, ret>>

-----------------------------------------------------------------------------
(* Bounds of the model *)

\* ranks per suit of the deck the server deals from (13 in the program)
DeckNumRanks == 2
\* ranks per suit of the cards the pure functions are applied to
NumRanks == 3
\* longest hand drawn as an input of a pure function
MaxHand == 3
\* disconnect events
MaxDisconnects == 1
\* reconnect-player requests
MaxReconnects == 1
\* accepted start-game requests
MaxStarts == 1

\* the participants that can join the room; the first one creates it
Users == <<"u1", "u2", "u3">>
\* the suits of the bounded deck the server deals from
DeckSuits == <<"clubs", "spades">>

-----------------------------------------------------------------------------
(* Cards: src/types/index.ts, src/game-logic/utils.ts *)

allSuits == <<"hearts", "diamonds", "clubs", "spades">>
allRanks == <<"2", "3", "4", "5", "6", "7", "8", "9", "10", "J", "Q", "K", "A">>

NoSuit == "null"
\* games.get / rooms.get of a missing key, and the room once it is deleted
NoGame == [id |-> "undefined"]
NoRoom == [id |-> "undefined"]
RoomDeleted == [id |-> "deleted"]
Sentinel == ""
TheGameId == "game-R"
Thrown == "TypeError"
ThrownState == [id |-> Thrown]

Range(s) == {s[i] : i \in 1..Len(s)}

\* Array.prototype.indexOf, 1-based; 0 when absent
IndexOf(seq, x) ==
    IF \E i \in 1..Len(seq) : seq[i] = x
    THEN CHOOSE i \in 1..Len(seq) : seq[i] = x /\ \A j \in 1..(i - 1) : seq[j] # x
    ELSE 0

Card(s, r) == [suit |-> s, rank |-> r]

\* the ranks of the bounded deck: the DeckNumRanks lowest ones
DeckRanks == SubSeq(allRanks, 1, DeckNumRanks)

\* every card a pure function is applied to
Cards == {Card(s, r) : s \in Range(allSuits), r \in Range(SubSeq(allRanks, 1, NumRanks))}

getCardValue(card) == IndexOf(allRanks, card.rank) + 1

RECURSIVE InsertByValue(_, _)
InsertByValue(sorted, c) ==
    IF sorted = <<>> THEN <<c>>
    ELSE IF getCardValue(c) < getCardValue(Head(sorted))
         THEN <<c>> \o sorted
         ELSE <<Head(sorted)>> \o InsertByValue(Tail(sorted), c)

RECURSIVE SortedPrefix(_, _)
SortedPrefix(cards, n) ==
    IF n = 0 THEN <<>> ELSE InsertByValue(SortedPrefix(cards, n - 1), cards[n])

\* a copy sorted from lowest to highest value (Array.prototype.sort is stable)
sortCards(cards) == SortedPrefix(cards, Len(cards))

\* the hand grouped by suit: one entry per suit of allSuits, in hand order
groupHandBySuit(hand) ==
    [s \in Range(allSuits) |-> SelectSeq(hand, LAMBDA c : c.suit = s)]

-----------------------------------------------------------------------------
(* Game rules: src/game-logic/rules.ts *)

\* players.find(p => p.id === id): the index of the player, 0 when undefined
FindPlayer(players, id) ==
    IF \E i \in 1..Len(players) : players[i].id = id
    THEN CHOOSE i \in 1..Len(players) :
            players[i].id = id /\ \A j \in 1..(i - 1) : players[j].id # id
    ELSE 0

HasCard(hand, card) ==
    \E i \in 1..Len(hand) : hand[i].suit = card.suit /\ hand[i].rank = card.rank

HasSuit(hand, suit) == \E i \in 1..Len(hand) : hand[i].suit = suit

\* `You must follow suit by playing a ${leadSuit}.`
MustFollow(leadSuit) == "You must follow suit by playing a " \o leadSuit \o "."

isMoveValid_NoFollowSuit(gameState, playerId, card) ==
    LET i == FindPlayer(gameState.players, playerId) IN
    IF i = 0 THEN [valid |-> FALSE, message |-> "Player not found."]
    ELSE IF gameState.currentPlayerId # playerId
    THEN [valid |-> FALSE, message |-> "It's not your turn."]
    ELSE IF ~HasCard(gameState.players[i].hand, card)
    THEN [valid |-> FALSE, message |-> "You don't have that card in your hand."]
    ELSE [valid |-> TRUE, message |-> ""]

isMoveValid(gameState, playerId, card) ==
    LET i == FindPlayer(gameState.players, playerId) IN
    IF i = 0 THEN [valid |-> FALSE, message |-> "Player not found."]
    ELSE IF gameState.currentPlayerId # playerId
    THEN [valid |-> FALSE, message |-> "It's not your turn."]
    ELSE IF ~HasCard(gameState.players[i].hand, card)
    THEN [valid |-> FALSE, message |-> "You don't have that card in your hand."]
    ELSE IF /\ gameState.leadSuit # NoSuit
            /\ HasSuit(gameState.players[i].hand, gameState.leadSuit)
            /\ card.suit # gameState.leadSuit
    THEN [valid |-> FALSE, message |-> MustFollow(gameState.leadSuit)]
    ELSE [valid |-> TRUE, message |-> ""]


RECURSIVE WinnerScan(_, _, _)
\* the loop of determineTrickWinner after the first k cards of the trick:
\* highestValue and the position of winningCard (0 for null)
WinnerScan(trick, leadSuit, k) ==
    IF k = 0 THEN [highestValue |-> -1, winningCard |-> 0]
    ELSE LET prev == WinnerScan(trick, leadSuit, k - 1) IN
         IF /\ trick[k].card.suit = leadSuit
            /\ getCardValue(trick[k].card) > prev.highestValue
         THEN [highestValue |-> getCardValue(trick[k].card), winningCard |-> k]
         ELSE prev

determineTrickWinner_AnySuit(trick, leadSuit) ==
    IF trick = <<>> THEN Thrown
    ELSE LET best == CHOOSE i \in 1..Len(trick) :
                        /\ \A j \in 1..Len(trick) :
                              getCardValue(trick[j].card) <= getCardValue(trick[i].card)
                        /\ \A j \in 1..(i - 1) :
                              getCardValue(trick[j].card) < getCardValue(trick[i].card)
         IN trick[best].playerId

\* the id of the winning player; winningCard!.playerId throws when no card
\* of the trick has the lead suit
determineTrickWinner(trick, leadSuit) ==
    LET w == WinnerScan(trick, leadSuit, Len(trick)).winningCard IN
    IF w = 0 THEN Thrown ELSE trick[w].playerId

processTrickWin_EveryoneScores(gameState, winningPlayerId) ==
    [gameState EXCEPT
        !.players = [i \in 1..Len(gameState.players) |->
                       [gameState.players[i] EXCEPT !.tricksWon = @ + 1]],
        !.currentTrick = <<>>,
        !.leadSuit = NoSuit,
        !.currentPlayerId = winningPlayerId,
        !.trickNumber = @ + 1,
        !.status = IF Len(gameState.players[1].hand) = 0 THEN "finished" ELSE "playing"]

\* the state for the next trick; players[0].hand throws without players
processTrickWin(gameState, winningPlayerId) ==
    IF gameState.players = <<>> THEN ThrownState
    ELSE
    LET w == FindPlayer(gameState.players, winningPlayerId)
        players == [i \in 1..Len(gameState.players) |->
                      IF i = w
                      THEN [gameState.players[i] EXCEPT !.tricksWon = @ + 1]
                      ELSE gameState.players[i]]
        isGameOver == Len(gameState.players[1].hand) = 0
    IN [gameState EXCEPT
            !.players = players,
            !.currentTrick = <<>>,
            !.leadSuit = NoSuit,
            !.currentPlayerId = winningPlayerId,
            !.trickNumber = @ + 1,
            !.status = IF isGameOver THEN "finished" ELSE "playing"]

getNextPlayerId_SkipsOne(gameState) ==
    LET currentIndex == IndexOf(gameState.turnOrder, gameState.currentPlayerId) - 1
        nextIndex == (currentIndex + 2) % Len(gameState.turnOrder)
    IN gameState.turnOrder[nextIndex + 1]

\* the next player in the turn order; indexOf is -1 for an id not in it
getNextPlayerId(gameState) ==
    LET currentIndex == IndexOf(gameState.turnOrder, gameState.currentPlayerId) - 1
        nextIndex == (currentIndex + 1) % Len(gameState.turnOrder)
    IN gameState.turnOrder[nextIndex + 1]

-----------------------------------------------------------------------------
(* Deck and deal: src/game-logic/rules.ts *)

\* the deck before shuffling: suit by suit, rank by rank
OrderedDeck ==
    [i \in 1..(Len(DeckSuits) * DeckNumRanks) |->
        Card(DeckSuits[((i - 1) \div DeckNumRanks) + 1],
             DeckRanks[((i - 1) % DeckNumRanks) + 1])]

RECURSIVE Orderings(_)
\* every sequence that holds each element of the set S once
Orderings(S) ==
    IF S = {} THEN {<<>>}
    ELSE UNION {{<<x>> \o rest : rest \in Orderings(S \ {x})} : x \in S}

\* shuffleDeck can leave the deck in any order
shuffleDeck(deck) == Orderings(Range(deck))

\* the decks createDeck can return
createDeck == shuffleDeck(OrderedDeck)

\* the comparator of dealCards: by suit in the order of allSuits, then by
\* value descending
DealBefore(a, b) ==
    LET suitOrder == IndexOf(allSuits, a.suit) - IndexOf(allSuits, b.suit) IN
    IF suitOrder # 0 THEN suitOrder < 0 ELSE getCardValue(b) - getCardValue(a) < 0

RECURSIVE InsertForDeal(_, _)
InsertForDeal(sorted, c) ==
    IF sorted = <<>> THEN <<c>>
    ELSE IF DealBefore(c, Head(sorted))
         THEN <<c>> \o sorted
         ELSE <<Head(sorted)>> \o InsertForDeal(Tail(sorted), c)

RECURSIVE SortForDeal(_, _)
SortForDeal(cards, n) ==
    IF n = 0 THEN <<>> ELSE InsertForDeal(SortForDeal(cards, n - 1), cards[n])

dealCards_DealsRemainder(deck, numPlayers) ==
    LET cardsPerPlayer == Len(deck) \div numPlayers
        extra(k) == IF k <= Len(deck) % numPlayers THEN 1 ELSE 0
        dealt(k) == [j \in 1..(cardsPerPlayer + extra(k)) |-> deck[(j - 1) * numPlayers + k]]
    IN [k \in 1..numPlayers |-> SortForDeal(dealt(k), cardsPerPlayer + extra(k))]

dealCards(deck, numPlayers) ==
    LET cardsPerPlayer == Len(deck) \div numPlayers
        \* hands[i % numPlayers].push(deck[i]) for i < cardsPerPlayer * numPlayers
        dealt(k) == [j \in 1..cardsPerPlayer |-> deck[(j - 1) * numPlayers + k]]
    IN [k \in 1..numPlayers |-> SortForDeal(dealt(k), cardsPerPlayer)]

\* players.find(p => p.isHost)?.id || players[0].id
HostOrFirst(list) ==
    IF \E i \in 1..Len(list) : list[i].isHost
    THEN list[CHOOSE i \in 1..Len(list) :
                list[i].isHost /\ \A j \in 1..(i - 1) : ~list[j].isHost].id
    ELSE list[1].id

RECURSIVE RotateTo(_, _)
\* while (turnOrder[0] !== startingPlayerId) turnOrder.push(turnOrder.shift())
RotateTo(turnOrder, startingPlayerId) ==
    IF turnOrder[1] = startingPlayerId THEN turnOrder
    ELSE RotateTo(Tail(turnOrder) \o <<Head(turnOrder)>>, startingPlayerId)

setupNewGame_HostStarts(playerList, gameId, maxPlayers, deck) ==
    LET hands == dealCards(deck, Len(playerList))
        players == [i \in 1..Len(playerList) |->
                      [id |-> playerList[i].id,
                       socketId |-> playerList[i].socketId,
                       isHost |-> playerList[i].isHost,
                       status |-> playerList[i].status,
                       hand |-> hands[i],
                       tricksWon |-> 0,
                       agoraUid |-> 1000 + (i - 1)]]
        startingPlayerId == HostOrFirst(players)
    IN [id |-> gameId,
        players |-> players,
        deck |-> <<>>,
        currentTrick |-> <<>>,
        leadSuit |-> NoSuit,
        currentPlayerId |-> startingPlayerId,
        turnOrder |-> RotateTo([i \in 1..Len(players) |-> players[i].id], startingPlayerId),
        round |-> 1,
        trickNumber |-> 1,
        status |-> "playing",
        hostId |-> HostOrFirst(playerList),
        maxPlayers |-> maxPlayers]

\* setupNewGame with the deck createDeck returned
setupNewGame(playerList, gameId, maxPlayers, deck) ==
    LET hands == dealCards(deck, Len(playerList))
        players == [i \in 1..Len(playerList) |->
                      [id |-> playerList[i].id,
                       socketId |-> playerList[i].socketId,
                       isHost |-> playerList[i].isHost,
                       status |-> playerList[i].status,
                       hand |-> hands[i],
                       tricksWon |-> 0,
                       agoraUid |-> 1000 + (i - 1)]]
        holders == {i \in 1..Len(players) : HasCard(players[i].hand, Card("clubs", "2"))}
        startingPlayerId ==
            IF holders # {}
            THEN players[CHOOSE i \in holders : \A j \in holders : i <= j].id
            ELSE HostOrFirst(players)
    IN [id |-> gameId,
        players |-> players,
        deck |-> <<>>,
        currentTrick |-> <<>>,
        leadSuit |-> NoSuit,
        currentPlayerId |-> startingPlayerId,
        turnOrder |-> RotateTo([i \in 1..Len(players) |-> players[i].id], startingPlayerId),
        round |-> 1,
        trickNumber |-> 1,
        status |-> "playing",
        hostId |-> HostOrFirst(playerList),
        maxPlayers |-> maxPlayers]

-----------------------------------------------------------------------------
(* Sanitized views and the autoplay heuristic: src/index.ts *)

PlaceholderCard == Card("spades", "2")

sanitizeGameStateForPlayer_KeepHands(fullState, targetPlayerId) == fullState

\* the state with every hand but the target player's replaced by placeholders
sanitizeGameStateForPlayer(fullState, targetPlayerId) ==
    LET sanitizedPlayers ==
            [i \in 1..Len(fullState.players) |->
                IF fullState.players[i].id = targetPlayerId
                THEN fullState.players[i]
                ELSE [fullState.players[i] EXCEPT
                        !.hand = [j \in 1..Len(@) |-> PlaceholderCard]]]
    IN [fullState EXCEPT !.players = sanitizedPlayers]

\* a transport session: the gen-th socket of the client of user id
Socket(id, gen) == <<"socket", id, gen>>
RoomChannel == <<"room", "R", 0>>

\* the game-state-updated messages of broadcastGameState
StateMessages(gameState) ==
    {[ev |-> "game-state-updated",
      to |-> Socket(gameState.players[i].id, gameState.players[i].socketId),
      view |-> sanitizeGameStateForPlayer(gameState, gameState.players[i].id)]
        : i \in 1..Len(gameState.players)}

broadcastGameState(gameState) ==
    IF gameState = NoGame THEN {} ELSE StateMessages(gameState)

\* the highest card of the lead suit in the trick: the trick's lead-suit
\* cards sorted by value descending, [0]?.card; 0 stands for undefined
WinningValueInTrick(currentTrick, leadSuit) ==
    LET onSuit == SelectSeq(currentTrick, LAMBDA tc : tc.card.suit = leadSuit) IN
    IF onSuit = <<>> THEN 0
    ELSE CHOOSE v \in {getCardValue(onSuit[i].card) : i \in 1..Len(onSuit)} :
            \A i \in 1..Len(onSuit) : getCardValue(onSuit[i].card) <= v

AutoFollowSuit_Cheapest(hand, currentTrick, leadSuit) ==
    LET followSuitCards == sortCards(SelectSeq(hand, LAMBDA c : c.suit = leadSuit))
        winning == WinningValueInTrick(currentTrick, leadSuit)
        winningHandCards ==
            IF winning # 0
            THEN SelectSeq(followSuitCards, LAMBDA c : getCardValue(c) > winning)
            ELSE followSuitCards
    IN IF Len(winningHandCards) > 0 THEN winningHandCards[1] ELSE followSuitCards[1]

\* triggerAutoPlay, the player holds the lead suit
AutoFollowSuit(hand, currentTrick, leadSuit) ==
    LET followSuitCards == sortCards(SelectSeq(hand, LAMBDA c : c.suit = leadSuit))
        winning == WinningValueInTrick(currentTrick, leadSuit)
        winningHandCards ==
            IF winning # 0
            THEN SelectSeq(followSuitCards, LAMBDA c : getCardValue(c) > winning)
            ELSE followSuitCards
    IN IF Len(winningHandCards) > 0
       THEN winningHandCards[Len(winningHandCards)]
       ELSE followSuitCards[1]

RECURSIVE LongestScan(_, _)
\* the forEach over the suit groups after the first k suits of allSuits:
\* maxLength and longestSuits
LongestScan(suitGroups, k) ==
    IF k = 0 THEN [maxLength |-> 0, longestSuits |-> <<>>]
    ELSE LET prev == LongestScan(suitGroups, k - 1)
             cards == suitGroups[allSuits[k]]
         IN IF Len(cards) > prev.maxLength
            THEN [maxLength |-> Len(cards), longestSuits |-> <<allSuits[k]>>]
            ELSE IF Len(cards) = prev.maxLength
            THEN [prev EXCEPT !.longestSuits = Append(@, allSuits[k])]
            ELSE prev

AutoShed_FirstSuit(hand) ==
    LET suitGroups == groupHandBySuit(hand)
        held == {k \in 1..Len(allSuits) : suitGroups[allSuits[k]] # <<>>}
        first == CHOOSE k \in held : \A j \in held : k <= j
    IN {sortCards(suitGroups[allSuits[first]])[1]}

\* triggerAutoPlay, the player holds no card of the lead suit: the cards the
\* random choice among the longest suits can select
AutoShed(hand) ==
    LET suitGroups == groupHandBySuit(hand)
        longestSuits == LongestScan(suitGroups, Len(allSuits)).longestSuits
    IN {sortCards(suitGroups[longestSuits[r]])[1] : r \in 1..Len(longestSuits)}

RECURSIVE ReduceHighest(_, _)
\* hand.reduce((highest, current) => value(current) > value(highest) ? current : highest)
ReduceHighest(hand, n) ==
    IF n = 1 THEN hand[1]
    ELSE LET highest == ReduceHighest(hand, n - 1) IN
         IF getCardValue(hand[n]) > getCardValue(highest) THEN hand[n] ELSE highest

AutoLead_First(hand) == hand[1]

\* triggerAutoPlay, the player leads the trick
AutoLead(hand) == ReduceHighest(hand, Len(hand))

AutoPlayCards_IgnoresLeadSuit(gameState, hand) == {AutoLead(hand)}

\* the cards triggerAutoPlay can play for a player with a non-empty hand
AutoPlayCards(gameState, hand) ==
    IF gameState.leadSuit # NoSuit
    THEN IF HasSuit(hand, gameState.leadSuit)
         THEN {AutoFollowSuit(hand, gameState.currentTrick, gameState.leadSuit)}
         ELSE AutoShed(hand)
    ELSE {AutoLead(hand)}

-----------------------------------------------------------------------------
(* The server: src/index.ts.  A handler is a function of the server state  *)
(* s = [room, game, playerTimers, reconnectionTimers, resolving, crashed,  *)
(* outbox]; an action runs one handler from the current state.             *)

NoRet == [fn |-> "none"]

\* the capacities a room is created with (maxPlayers: 2 | 3 | 4)
Capacities == {3}

\* the game ids a play-card request can name
GameIds == {TheGameId, "game-X"}

Current ==
    [room |-> room, game |-> game, playerTimers |-> playerTimers,
     reconnectionTimers |-> reconnectionTimers, resolving |-> resolving,
     crashed |-> crashed, outbox |-> {}]

Becomes(s) ==
    \E t \in {s} :
        /\ room' = t.room
        /\ game' = t.game
        /\ playerTimers' = t.playerTimers
        /\ reconnectionTimers' = t.reconnectionTimers
        /\ resolving' = t.resolving
        /\ crashed' = t.crashed
        /\ outbox' = t.outbox

HasRoom(s) == s.room # NoRoom /\ s.room # RoomDeleted

Emit(s, msgs) == [s EXCEPT !.outbox = @ \cup msgs]

\* console.log, a line of the server's log
Console == "console"

Log(s, line) == Emit(s, {[ev |-> "log", to |-> Console, line |-> line]})

Throw(s) == [s EXCEPT !.crashed = TRUE]

clearAllPlayerTimers(s, playerId) ==
    [s EXCEPT !.playerTimers = @ \ {playerId},
              !.reconnectionTimers = @ \ {playerId}]

startPlayerTurn(s, playerId) ==
    LET c == clearAllPlayerTimers(s, playerId) IN
    [c EXCEPT !.playerTimers = @ \cup {playerId}]

advanceToNextTurn(s, nextPlayerId) ==
    IF s.game = NoGame THEN s
    ELSE IF s.game.status = "finished" THEN s
    ELSE LET g == [s.game EXCEPT !.currentPlayerId = nextPlayerId] IN
         startPlayerTurn(Emit([s EXCEPT !.game = g], broadcastGameState(g)),
                         nextPlayerId)

CardPlayed_KeepsCard(gameState, i, playerId, card) ==
    [gameState EXCEPT
        !.currentTrick = Append(@, [playerId |-> playerId, card |-> card]),
        !.leadSuit = IF @ = NoSuit THEN card.suit ELSE @]

CardPlayed_LastSuitLeads(gameState, i, playerId, card) ==
    [gameState EXCEPT
        !.players[i].hand =
            SelectSeq(@, LAMBDA c : ~(c.rank = card.rank /\ c.suit = card.suit)),
        !.currentTrick = Append(@, [playerId |-> playerId, card |-> card]),
        !.leadSuit = card.suit]

\* the game after the card left the hand and joined the trick
CardPlayed(gameState, i, playerId, card) ==
    [gameState EXCEPT
        !.players[i].hand =
            SelectSeq(@, LAMBDA c : ~(c.rank = card.rank /\ c.suit = card.suit)),
        !.currentTrick = Append(@, [playerId |-> playerId, card |-> card]),
        !.leadSuit = IF @ = NoSuit THEN card.suit ELSE @]

handlePlayCardLogic(s, playerId, card) ==
    IF s.game = NoGame THEN s
    ELSE IF ~HasRoom(s) THEN s
    ELSE LET c == clearAllPlayerTimers(s, playerId)
             i == FindPlayer(c.game.players, playerId)
         IN IF i = 0 THEN Throw(c)
            ELSE LET g == CardPlayed(c.game, i, playerId, card) IN
                 IF Len(g.currentTrick) = Len(g.players)
                 THEN LET h == [g EXCEPT !.currentPlayerId = Sentinel] IN
                      [Emit([c EXCEPT !.game = h], broadcastGameState(h))
                          EXCEPT !.resolving = @ + 1]
                 ELSE advanceToNextTurn([c EXCEPT !.game = g], getNextPlayerId(g))

RECURSIVE ClearTimersOf(_, _, _)
\* players.forEach(p => clearAllPlayerTimers(p.id))
ClearTimersOf(s, players, n) ==
    IF n = 0 THEN s
    ELSE clearAllPlayerTimers(ClearTimersOf(s, players, n - 1), players[n].id)

Scores(players) ==
    [i \in 1..Len(players) |-> [id |-> players[i].id, tricksWon |-> players[i].tricksWon]]

\* the callback of the trick-end delay
resolveTrick(s) ==
    IF s.game = NoGame THEN s
    ELSE LET winnerId == determineTrickWinner(s.game.currentTrick, s.game.leadSuit) IN
         IF winnerId = Thrown THEN Throw(s)
         ELSE IF processTrickWin(s.game, winnerId) = ThrownState THEN Throw(s)
         ELSE LET nextState == processTrickWin(s.game, winnerId)
                  won == {[ev |-> "trick-won", to |-> RoomChannel,
                           winnerId |-> winnerId, trick |-> s.game.currentTrick]}
              IN IF nextState.status = "finished"
                 THEN LET over == {[ev |-> "game-over", to |-> RoomChannel,
                                    scores |-> Scores(nextState.players)]}
                          t == ClearTimersOf(Emit(s, won \cup over), nextState.players,
                                             Len(nextState.players))
                      IN [t EXCEPT !.game = NoGame,
                                   !.room = IF HasRoom(t) THEN [@ EXCEPT !.gameId = NoGame.id]
                                            ELSE @]
                 ELSE advanceToNextTurn(Emit([s EXCEPT !.game = nextState], won), winnerId)

AutoPlayChoices_NoTurnCheck(s, playerId) ==
    IF s.game = NoGame THEN {}
    ELSE LET i == FindPlayer(s.game.players, playerId) IN
         IF i = 0 THEN {}
         ELSE IF Len(s.game.players[i].hand) = 0 THEN {}
         ELSE AutoPlayCards(s.game, s.game.players[i].hand)

\* the cards triggerAutoPlay can hand to handlePlayCardLogic: none when it
\* returns early
AutoPlayChoices(s, playerId) ==
    IF s.game = NoGame THEN {}
    ELSE IF s.game.currentPlayerId # playerId THEN {}
    ELSE LET i == FindPlayer(s.game.players, playerId) IN
         IF i = 0 THEN {}
         ELSE IF Len(s.game.players[i].hand) = 0 THEN {}
         ELSE AutoPlayCards(s.game, s.game.players[i].hand)

\* triggerAutoPlay once it chose the card: the log line and the play
AutoPlayCard(s, playerId, cardToPlay) ==
    handlePlayCardLogic(
        Log(s, <<"AutoPlay", playerId, cardToPlay.rank, cardToPlay.suit>>),
        playerId, cardToPlay)

\* the states triggerAutoPlay can leave: one per card the heuristic can choose
triggerAutoPlay(s, playerId) ==
    IF AutoPlayChoices(s, playerId) = {} THEN {s}
    ELSE {AutoPlayCard(s, playerId, cardToPlay) :
            cardToPlay \in AutoPlayChoices(s, playerId)}

-----------------------------------------------------------------------------
(* The requests and the timers *)

FindUser(players, id) == FindPlayer(players, id)

\* the users of the room with a live connection
OnlineUsers ==
    IF HasRoom(Current)
    THEN {room.players[i].id :
            i \in {j \in 1..Len(room.players) : room.players[j].status = "online"}}
    ELSE {}

\* the socket the room has bound to the user
SocketOf(userId) == Socket(userId, room.players[FindUser(room.players, userId)].socketId)

\* socket.on('create-room'): the first user creates the room and is its host
CreateRoom(maxPlayers) ==
    /\ ~crashed
    /\ room = NoRoom
    /\ issued = 0
    /\ LET userId == Users[1]
           user == [id |-> userId, socketId |-> 0, isHost |-> TRUE, status |-> "online"]
       IN /\ room' = [id |-> "R", players |-> <<user>>, hostId |-> userId,
                      gameId |-> NoGame.id, maxPlayers |-> maxPlayers]
          /\ outbox' = {[ev |-> "log", to |-> Console, line |-> <<"create-room", userId>>],
                        [ev |-> "room-created", to |-> Socket(userId, 0)]}
    /\ issued' = 1
    /\ UNCHANGED <<game, playerTimers, reconnectionTimers, resolving, crashed, starts, disconnects, reconnects, ret>>

\* socket.on('join-room') from the client that would become the next user
JoinRoom ==
    /\ ~crashed
    /\ HasRoom(Current)
    /\ issued < Len(Users)
    /\ LET userId == Users[issued + 1]
           user == [id |-> userId, socketId |-> 0, isHost |-> FALSE, status |-> "online"]
       IN IF Len(room.players) >= room.maxPlayers
          THEN /\ outbox' = {[ev |-> "room-error", to |-> Socket(userId, 0),
                              reason |-> "Room is full."]}
               /\ UNCHANGED <<room, issued>>
          ELSE /\ room' = [room EXCEPT !.players = Append(@, user)]
               /\ issued' = issued + 1
               /\ outbox' = {[ev |-> "room-joined", to |-> Socket(userId, 0)],
                             [ev |-> "player-joined", to |-> RoomChannel]}
    /\ UNCHANGED <<game, playerTimers, reconnectionTimers, resolving, crashed, starts, disconnects, reconnects, ret>>

\* the server after socket.on('start-game') with the deck createDeck returned
startGame(s, playerId, deck) ==
    IF ~HasRoom(s) THEN s
    ELSE IF s.room.hostId # playerId THEN s
    ELSE IF Len(s.room.players) < 2 THEN s
    ELSE LET gameState == setupNewGame(s.room.players, TheGameId, s.room.maxPlayers, deck)
             t == [s EXCEPT !.game = gameState, !.room.gameId = TheGameId]
         IN startPlayerTurn(
                Emit(t, {[ev |-> "game-started", to |-> RoomChannel]}
                        \cup broadcastGameState(gameState)),
                gameState.currentPlayerId)

StartGameAccepted(playerId) ==
    HasRoom(Current) /\ room.hostId = playerId /\ Len(room.players) >= 2

StartGame(playerId) ==
    /\ ~crashed
    /\ room # NoRoom
    /\ IF StartGameAccepted(playerId)
       THEN /\ starts < MaxStarts
            /\ starts' = starts + 1
            /\ \E deck \in createDeck : Becomes(startGame(Current, playerId, deck))
       ELSE /\ starts' = starts
            /\ Becomes(startGame(Current, playerId, OrderedDeck))
    /\ UNCHANGED <<issued, disconnects, reconnects, ret>>

\* games.get(gameId)
GameOf(s, gameId) == IF gameId = TheGameId THEN s.game ELSE NoGame

playCard_Unvalidated(s, from, gameId, playerId, card) ==
    IF GameOf(s, gameId) = NoGame THEN s
    ELSE IF s.game.currentPlayerId # playerId THEN s
    ELSE handlePlayCardLogic(s, playerId, card)

\* socket.on('play-card') from the socket `from`
playCard(s, from, gameId, playerId, card) ==
    IF GameOf(s, gameId) = NoGame THEN s
    ELSE IF s.game.currentPlayerId # playerId THEN s
    ELSE LET validation == isMoveValid(s.game, playerId, card) IN
         IF ~validation.valid
         THEN Emit(s, {[ev |-> "game-error", to |-> from, reason |-> validation.message]})
         ELSE handlePlayCardLogic(s, playerId, card)

\* a play-card request over the live socket of a user, in the name of playerId
PlayCard(from, gameId, playerId, card) ==
    /\ ~crashed
    /\ from \in OnlineUsers
    /\ Becomes(playCard(Current, SocketOf(from), gameId, playerId, card))
    /\ UNCHANGED <<issued, starts, disconnects, reconnects, ret>>

\* the turn timer of playerId fires
TurnTimerFires(playerId) ==
    /\ ~crashed
    /\ playerId \in playerTimers
    /\ \E t \in triggerAutoPlay(
                  Log([Current EXCEPT !.playerTimers = @ \ {playerId}],
                      <<"Timer", playerId>>),
                  playerId) :
          Becomes(t)
    /\ UNCHANGED <<issued, starts, disconnects, reconnects, ret>>

\* the trick-end delay elapses
TrickDelayElapses ==
    /\ ~crashed
    /\ resolving > 0
    /\ Becomes(resolveTrick([Current EXCEPT !.resolving = @ - 1]))
    /\ UNCHANGED <<issued, starts, disconnects, reconnects, ret>>

\* socket.on('disconnect') of the socket bound to the user at position u
disconnect(s, u) ==
    LET user == s.room.players[u]
        r == Emit([s EXCEPT !.room.players[u].status = "offline"],
                  {[ev |-> "player-disconnected", to |-> RoomChannel, userId |-> user.id]})
        g == GameOf(r, r.room.gameId)
        a == IF g # NoGame /\ g.currentPlayerId = user.id
             THEN advanceToNextTurn(Log(r, <<"Disconnect", user.id>>), getNextPlayerId(g))
             ELSE r
    IN [a EXCEPT !.reconnectionTimers = @ \cup {user.id}]

Disconnect(userId) ==
    /\ ~crashed
    /\ HasRoom(Current)
    /\ LET u == FindUser(room.players, userId) IN
          /\ u # 0
          /\ room.players[u].status = "online"
          /\ Becomes(disconnect(Current, u))
    /\ disconnects < MaxDisconnects
    /\ disconnects' = disconnects + 1
    /\ UNCHANGED <<issued, starts, reconnects, ret>>

reconnectPlayer_StaysOffline(s, userId) ==
    IF ~HasRoom(s) THEN s
    ELSE LET u == FindUser(s.room.players, userId) IN
         IF u = 0 THEN s
         ELSE LET socketId == s.room.players[u].socketId + 1
                  c == clearAllPlayerTimers(s, userId)
                  r == Emit([c EXCEPT !.room.players[u].socketId = socketId],
                            {[ev |-> "player-reconnected", to |-> RoomChannel,
                              userId |-> userId]})
                  g == GameOf(r, r.room.gameId)
              IN IF g # NoGame
                 THEN Emit(r, {[ev |-> "game-state-updated",
                                to |-> Socket(userId, socketId),
                                view |-> sanitizeGameStateForPlayer(g, userId)]})
                 ELSE r

\* socket.on('reconnect-player') from a fresh socket of the user's client
reconnectPlayer(s, userId) ==
    IF ~HasRoom(s) THEN s
    ELSE LET u == FindUser(s.room.players, userId) IN
         IF u = 0 THEN s
         ELSE LET socketId == s.room.players[u].socketId + 1
                  c == clearAllPlayerTimers(s, userId)
                  r == Emit([c EXCEPT !.room.players[u].status = "online",
                                      !.room.players[u].socketId = socketId],
                            {[ev |-> "player-reconnected", to |-> RoomChannel,
                              userId |-> userId]})
                  g == GameOf(r, r.room.gameId)
              IN IF g # NoGame
                 THEN Emit(r, {[ev |-> "game-state-updated",
                                to |-> Socket(userId, socketId),
                                view |-> sanitizeGameStateForPlayer(g, userId)]})
                 ELSE r

Reconnect(userId) ==
    /\ ~crashed
    /\ HasRoom(Current)
    /\ FindUser(room.players, userId) # 0
    /\ reconnects < MaxReconnects
    /\ reconnects' = reconnects + 1
    /\ Becomes(reconnectPlayer(Current, userId))
    /\ UNCHANGED <<issued, starts, disconnects, ret>>

pruneOffline_GameGoesOn(s, userId) ==
    IF ~HasRoom(s) THEN s
    ELSE IF ~\E i \in 1..Len(s.room.players) :
                s.room.players[i].id = userId /\ s.room.players[i].status = "offline"
    THEN s
    ELSE LET left == SelectSeq(s.room.players, LAMBDA p : p.id # userId)
             c == clearAllPlayerTimers(
                      Log([s EXCEPT !.room.players = left], <<"Timer", "Removing", userId>>),
                      userId)
             currentGame == GameOf(c, c.room.gameId)
             g == IF currentGame = NoGame THEN c
                  ELSE LET remaining == SelectSeq(currentGame.players,
                                                  LAMBDA p : p.id # userId)
                       IN [c EXCEPT !.game.players = remaining]
         IN IF Len(g.room.players) = 0
            THEN [g EXCEPT !.room = RoomDeleted]
            ELSE LET h == IF g.room.hostId = userId
                          THEN [g EXCEPT !.room.hostId = g.room.players[1].id,
                                         !.room.players[1].isHost = TRUE]
                          ELSE g
                 IN Emit(h, {[ev |-> "player-left", to |-> RoomChannel,
                              players |-> h.room.players, hostId |-> h.room.hostId]})

\* the callback of the reconnection grace timer of userId
pruneOffline(s, userId) ==
    IF ~HasRoom(s) THEN s
    ELSE IF ~\E i \in 1..Len(s.room.players) :
                s.room.players[i].id = userId /\ s.room.players[i].status = "offline"
    THEN s
    ELSE LET left == SelectSeq(s.room.players, LAMBDA p : p.id # userId)
             c == clearAllPlayerTimers(
                      Log([s EXCEPT !.room.players = left], <<"Timer", "Removing", userId>>),
                      userId)
             currentGame == GameOf(c, c.room.gameId)
             g == IF currentGame = NoGame THEN c
                  ELSE LET remaining == SelectSeq(currentGame.players,
                                                  LAMBDA p : p.id # userId)
                       IN IF Len(remaining) < 2
                          THEN Emit([c EXCEPT !.game = NoGame, !.room.gameId = NoGame.id],
                                    {[ev |-> "game-over", to |-> RoomChannel,
                                      scores |-> <<>>]})
                          ELSE [c EXCEPT !.game.players = remaining]
         IN IF Len(g.room.players) = 0
            THEN [g EXCEPT !.room = RoomDeleted]
            ELSE LET h == IF g.room.hostId = userId
                          THEN [g EXCEPT !.room.hostId = g.room.players[1].id,
                                         !.room.players[1].isHost = TRUE]
                          ELSE g
                 IN Emit(h, {[ev |-> "player-left", to |-> RoomChannel,
                              players |-> h.room.players, hostId |-> h.room.hostId]})

GraceTimerFires(userId) ==
    /\ ~crashed
    /\ userId \in reconnectionTimers
    /\ Becomes(pruneOffline([Current EXCEPT !.reconnectionTimers = @ \ {userId}], userId))
    /\ UNCHANGED <<issued, starts, disconnects, reconnects, ret>>

UserIds == Range(Users)

\* the cards of the bounded deck
DeckCards == Range(OrderedDeck)

\* the play-card requests: every one for the game of the room, and one for
\* each user for a game that does not exist
PlayCardRequests ==
    [from : UserIds, gameId : {TheGameId}, playerId : UserIds, card : DeckCards]
    \cup {[from |-> u, gameId |-> "game-X", playerId |-> u, card |-> OrderedDeck[1]] :
             u \in UserIds}

Init ==
    /\ room = NoRoom
    /\ issued = 0
    /\ game = NoGame
    /\ playerTimers = {}
    /\ reconnectionTimers = {}
    /\ resolving = 0
    /\ crashed = FALSE
    /\ starts = 0
    /\ disconnects = 0
    /\ reconnects = 0
    /\ outbox = {}
    /\ ret = NoRet

Next ==
    \/ \E maxPlayers \in Capacities : CreateRoom(maxPlayers)
    \/ JoinRoom
    \/ \E playerId \in UserIds : StartGame(playerId)
    \/ \E r \in PlayCardRequests : PlayCard(r.from, r.gameId, r.playerId, r.card)
    \/ \E playerId \in UserIds : TurnTimerFires(playerId)
    \/ TrickDelayElapses
    \/ \E userId \in UserIds : Disconnect(userId)
    \/ \E userId \in UserIds : Reconnect(userId)
    \/ \E userId \in UserIds : GraceTimerFires(userId)

Spec == Init /\ [][Next]_vars

-----------------------------------------------------------------------------
(* Inputs of the pure functions: game states in the middle of a trick *)

\* a hand as dealCards leaves it: by suit, then by value descending
SortedHand(S) ==
    LET cards == CHOOSE o \in Orderings(S) : TRUE IN SortForDeal(cards, Len(cards))

\* the hands of at most n cards
Hands(n) == {SortedHand(S) : S \in {T \in SUBSET Cards : Cardinality(T) <= n}}

RECURSIVE CardSeqs(_)
\* the sequences of exactly n distinct cards
CardSeqs(n) ==
    IF n = 0 THEN {<<>>}
    ELSE UNION {{Append(o, c) : c \in Cards \ Range(o)} : o \in CardSeqs(n - 1)}

\* the tricks of at most n distinct cards, played in turn by the last
\* players of the first m users
TricksBy(n, m) ==
    UNION {{[i \in 1..k |-> [playerId |-> Users[m - k + i], card |-> o[i]]] :
              o \in CardSeqs(k)} : k \in 0..n}

InputPlayer(i, hand) ==
    [id |-> Users[i], socketId |-> 0, isHost |-> i = 1, status |-> "online",
     hand |-> hand, tricksWon |-> 0, agoraUid |-> 1000 + (i - 1)]

\* a game of the players with these hands, in the middle of this trick
InputGame(hands, trick, currentPlayerId) ==
    [id |-> TheGameId,
     players |-> [i \in 1..Len(hands) |-> InputPlayer(i, hands[i])],
     deck |-> <<>>,
     currentTrick |-> trick,
     leadSuit |-> IF trick = <<>> THEN NoSuit ELSE trick[1].card.suit,
     currentPlayerId |-> currentPlayerId,
     turnOrder |-> RotateTo([i \in 1..Len(hands) |-> Users[i]],
                            IF trick = <<>> THEN Users[1] ELSE trick[1].playerId),
     round |-> 1,
     trickNumber |-> 1,
     status |-> "playing",
     hostId |-> Users[1],
     maxPlayers |-> 3]

TrickCards(trick) == {trick[i].card : i \in 1..Len(trick)}

\* the server around an input game: the room of its players, no timer pending
InputServer(g) ==
    /\ game = g
    /\ room = [id |-> "R",
               players |-> [i \in 1..Len(g.players) |->
                              [id |-> g.players[i].id, socketId |-> 0,
                               isHost |-> i = 1, status |-> "online"]],
               hostId |-> Users[1], gameId |-> TheGameId, maxPlayers |-> 3]
    /\ issued = Len(g.players)
    /\ playerTimers = {}
    /\ reconnectionTimers = {}
    /\ resolving = 0
    /\ crashed = FALSE
    /\ starts = 1
    /\ disconnects = 0
    /\ reconnects = 0
    /\ outbox = {}
    /\ ret = NoRet

ServerUnchanged ==
    UNCHANGED <<room, issued, game, playerTimers, reconnectionTimers, resolving,
                crashed, starts, disconnects, reconnects, outbox>>

-----------------------------------------------------------------------------
(* SpecValid: isMoveValid on every request against every input game *)

ValidInputs(n) ==
    {InputGame(<<hand, <<>>>>, trick, cur) :
        hand \in Hands(n), trick \in TricksBy(1, 2),
        cur \in {Users[1], Users[2], Sentinel}}

InitValid == \E g \in ValidInputs(MaxHand) : TrickCards(g.currentTrick) \cap Range(g.players[1].hand) = {}
                                      /\ InputServer(g)

Validate(playerId, card) ==
    /\ ret' = [fn |-> "isMoveValid", playerId |-> playerId, card |-> card,
               result |-> isMoveValid(game, playerId, card)]
    /\ ServerUnchanged

NextValid ==
    /\ ret = NoRet
    /\ \E playerId \in UserIds, card \in Cards : Validate(playerId, card)

SpecValid == InitValid /\ [][NextValid]_vars

\* the hand of the player a validation was asked for
RetHand == game.players[FindPlayer(game.players, ret.playerId)].hand

\* the validation the claim is about: a lead suit is set and the request
\* is by the current player, for a card of the player's hand
ValidClaimCase ==
    /\ ret.fn = "isMoveValid"
    /\ game.leadSuit # NoSuit
    /\ ret.playerId = game.currentPlayerId
    /\ FindPlayer(game.players, ret.playerId) # 0
    /\ HasCard(RetHand, ret.card)

ValidFollowSuit ==
    ValidClaimCase =>
        /\ ret.result.valid \in BOOLEAN
        /\ ~ret.result.valid <=>
              (ret.card.suit # game.leadSuit /\ HasSuit(RetHand, game.leadSuit))

\* C1: with a lead suit set, a card of the current player's hand is rejected
\* exactly when it is off the lead suit while the hand holds the lead suit,
\* and accepted in every other such case; validating leaves the game as it is.
C1_ValidFollowSuit ==
    /\ []ValidFollowSuit
    /\ [][ret'.fn = "isMoveValid" => game' = game]_vars

\* an off-suit card of a hand that holds the lead suit was rejected
C1_Witness ==
    /\ ValidClaimCase
    /\ ret.card.suit # game.leadSuit
    /\ HasSuit(RetHand, game.leadSuit)
    /\ ~ret.result.valid
    /\ ret.result.message = MustFollow(game.leadSuit)

-----------------------------------------------------------------------------
(* SpecWinner: determineTrickWinner on every trick and lead suit *)

\* the tricks of at most one card per user; a card after the first is played
\* by the user of its position or, again, by the first user
WinnerTricks(n) ==
    UNION {{[i \in 1..k |-> [playerId |-> Users[who[i]], card |-> o[i]]] :
              o \in CardSeqs(k),
              who \in {w \in [1..k -> 1..Len(Users)] : \A i \in 1..k : w[i] \in {1, i}}} :
           k \in 0..n}

InitWinner == InputServer(InputGame(<<<<>>, <<>>>>, <<>>, Users[1]))

ResolveInput(trick, leadSuit) ==
    /\ ret' = [fn |-> "determineTrickWinner", trick |-> trick, leadSuit |-> leadSuit,
               result |-> determineTrickWinner(trick, leadSuit)]
    /\ ServerUnchanged

NextWinner ==
    /\ ret = NoRet
    /\ \E trick \in WinnerTricks(Len(Users)), leadSuit \in Range(allSuits) : ResolveInput(trick, leadSuit)

SpecWinner == InitWinner /\ [][NextWinner]_vars

\* the positions of the lead-suit cards of the resolved trick
RetOnSuit == {i \in 1..Len(ret.trick) : ret.trick[i].card.suit = ret.leadSuit}

\* C2: for a trick holding a card of the lead suit, the winner is a player
\* whose card has the lead suit and the highest value among the lead-suit
\* cards of the trick; a card off the lead suit never wins.
C2_WinnerHighestOfLeadSuit ==
    (ret.fn = "determineTrickWinner" /\ RetOnSuit # {}) =>
        \E i \in RetOnSuit :
            /\ ret.result = ret.trick[i].playerId
            /\ \A j \in RetOnSuit :
                  getCardValue(ret.trick[j].card) <= getCardValue(ret.trick[i].card)

\* a trick whose last card is off the lead suit and as high as any, won by
\* the player who followed suit with a higher card than the lead
C2_Witness ==
    /\ ret.fn = "determineTrickWinner"
    /\ Len(ret.trick) = 3
    /\ RetOnSuit = {1, 2}
    /\ getCardValue(ret.trick[3].card) >= getCardValue(ret.trick[2].card)
    /\ getCardValue(ret.trick[2].card) > getCardValue(ret.trick[1].card)
    /\ ret.trick[2].playerId # ret.trick[1].playerId
    /\ ret.trick[3].playerId # ret.trick[2].playerId
    /\ ret.result = ret.trick[2].playerId

-----------------------------------------------------------------------------
(* SpecAuto: the turn timer of the current player fires in every input game *)

AutoInputs(n) ==
    {InputGame(<<hand, <<>>, <<>>>>, trick, Users[1]) :
        hand \in Hands(n), trick \in TricksBy(2, 3)}

InitAuto ==
    \E g \in AutoInputs(MaxHand) :
        /\ TrickCards(g.currentTrick) \cap Range(g.players[1].hand) = {}
        /\ InputServer(g)

\* the turn timer of playerId fires; ret keeps the card the heuristic chose
\* and the hand, the trick and the lead suit it chose from
AutoPlays(playerId) ==
    LET s == Log([Current EXCEPT !.playerTimers = @ \ {playerId}], <<"Timer", playerId>>)
        hand == game.players[FindPlayer(game.players, playerId)].hand
    IN IF AutoPlayChoices(s, playerId) = {}
       THEN /\ Becomes(s)
            /\ ret' = [fn |-> "triggerAutoPlay", played |-> FALSE]
       ELSE \E cardToPlay \in AutoPlayChoices(s, playerId) :
               /\ Becomes(AutoPlayCard(s, playerId, cardToPlay))
               /\ ret' = [fn |-> "triggerAutoPlay", played |-> TRUE,
                          playerId |-> playerId, card |-> cardToPlay, hand |-> hand,
                          currentTrick |-> game.currentTrick, leadSuit |-> game.leadSuit]

NextAuto ==
    /\ ret = NoRet
    /\ AutoPlays(game.currentPlayerId)
    /\ UNCHANGED <<issued, starts, disconnects, reconnects>>

SpecAuto == InitAuto /\ [][NextAuto]_vars

AutoPlayed == ret.fn = "triggerAutoPlay" /\ ret.played

\* the cards of the hand autoplay chose from that have the given suit
RetOfSuit(suit) == {ret.hand[i] : i \in {j \in 1..Len(ret.hand) : ret.hand[j].suit = suit}}

\* the highest value among the lead-suit cards of the trick autoplay saw
RetTrickValues ==
    {getCardValue(ret.currentTrick[i].card) :
        i \in {j \in 1..Len(ret.currentTrick) : ret.currentTrick[j].card.suit = ret.leadSuit}}

\* the cards of the lead suit in hand that beat every lead-suit card of the trick
RetBeating ==
    {c \in RetOfSuit(ret.leadSuit) : \A v \in RetTrickValues : getCardValue(c) > v}

Lowest(S, c) == c \in S /\ \A d \in S : getCardValue(c) <= getCardValue(d)

AutoFollowCase == AutoPlayed /\ ret.leadSuit # NoSuit /\ RetOfSuit(ret.leadSuit) # {}

\* C3: holding the lead suit, autoplay plays the lowest card that beats the
\* highest lead-suit card of the trick if one does, otherwise the lowest
\* card of the lead suit.
C3_AutoWinsCheaply ==
    AutoFollowCase =>
        IF RetBeating # {} THEN Lowest(RetBeating, ret.card)
        ELSE Lowest(RetOfSuit(ret.leadSuit), ret.card)

Highest(S, c) == c \in S /\ \A d \in S : getCardValue(d) <= getCardValue(c)

\* C3 as amended: holding the lead suit, autoplay plays the highest card that
\* beats the highest lead-suit card of the trick if one does, otherwise the
\* lowest card of the lead suit.
C3_AutoWinsWithHighest ==
    AutoFollowCase =>
        IF RetBeating # {} THEN Highest(RetBeating, ret.card)
        ELSE Lowest(RetOfSuit(ret.leadSuit), ret.card)

\* autoplay followed suit from a hand with two cards that beat the trick
C3_Witness ==
    /\ AutoFollowCase
    /\ Cardinality(RetBeating) = 2
    /\ Highest(RetBeating, ret.card)
    /\ \E i \in 1..Len(game.currentTrick) :
          game.currentTrick[i] = [playerId |-> ret.playerId, card |-> ret.card]

AutoShedCase == AutoPlayed /\ ret.leadSuit # NoSuit /\ RetOfSuit(ret.leadSuit) = {}

\* C4: holding no card of the lead suit, autoplay plays the lowest card of a
\* suit the hand holds the most cards of, never of a shorter suit.
C4_AutoShedsLongest ==
    AutoShedCase =>
        /\ \A s \in Range(allSuits) :
              Cardinality(RetOfSuit(s)) <= Cardinality(RetOfSuit(ret.card.suit))
        /\ Lowest(RetOfSuit(ret.card.suit), ret.card)

\* autoplay shed the lowest card of the longest suit of a hand that also
\* holds a shorter suit, earlier in the order of the suits
C4_Witness ==
    /\ AutoShedCase
    /\ Cardinality(RetOfSuit(ret.card.suit)) = 2
    /\ \E s \in Range(allSuits) :
          /\ Cardinality(RetOfSuit(s)) = 1
          /\ IndexOf(allSuits, s) < IndexOf(allSuits, ret.card.suit)

AutoLeadCase == AutoPlayed /\ ret.leadSuit = NoSuit

\* C5: leading the trick, autoplay plays a card whose value is the highest
\* of the whole hand.
C5_AutoLeadsHighest ==
    AutoLeadCase =>
        /\ HasCard(ret.hand, ret.card)
        /\ \A i \in 1..Len(ret.hand) : getCardValue(ret.hand[i]) <= getCardValue(ret.card)

\* autoplay led with the highest card of a hand whose first card is lower
C5_Witness ==
    /\ AutoLeadCase
    /\ Len(ret.hand) = 3
    /\ getCardValue(ret.hand[1]) < getCardValue(ret.card)
    /\ game.currentTrick = <<[playerId |-> ret.playerId, card |-> ret.card]>>

-----------------------------------------------------------------------------
(* The timers and the requests against the running server                   *)

\* the timers that are armed
ArmedTimers == <<playerTimers, reconnectionTimers, resolving>>

StaleTimer(p) == game # NoGame /\ game.currentPlayerId # p

TimerLine(p) == [ev |-> "log", to |-> Console, line |-> <<"Timer", p>>]

\* a step that adds to the trick adds one card, in the name of the player
\* whose turn it is
PlaysForCurrent ==
    (game # NoGame /\ game' # NoGame /\ game'.currentTrick # game.currentTrick
        /\ game'.currentTrick # <<>>)
    => /\ Len(game'.currentTrick) = Len(game.currentTrick) + 1
       /\ SubSeq(game'.currentTrick, 1, Len(game.currentTrick)) = game.currentTrick
       /\ game'.currentTrick[Len(game'.currentTrick)].playerId = game.currentPlayerId

\* C6: a turn timer of p that fires when p is not the current player changes
\* no hand, trick, lead suit, current player or other timer; and whatever
\* the interleaving of plays and timers, a card joins the trick only in the
\* name of the player who is the current player at that step.
C6_StaleTimerChangesNothing ==
    [][/\ \A p \in UserIds :
            (StaleTimer(p) /\ TurnTimerFires(p))
            => /\ game' = game
               /\ room' = room
               /\ playerTimers' = playerTimers \ {p}
               /\ reconnectionTimers' = reconnectionTimers
               /\ resolving' = resolving
               /\ outbox' = {TimerLine(p)}
       /\ PlaysForCurrent]_vars

\* the turn timer of a player fired after the turn had moved on, in a trick
\* under way
C6_Witness ==
    /\ game # NoGame
    /\ \E p \in UserIds : outbox = {TimerLine(p)} /\ game.currentPlayerId # p
    /\ game.currentTrick # <<>>
    /\ playerTimers # {}

\* the request is for a game that exists and fails the validation
FailsValidation(r) ==
    /\ GameOf(Current, r.gameId) # NoGame
    /\ ~isMoveValid(game, r.playerId, r.card).valid

\* the request is for no game, not in the name of the current player, or fails
\* the validation
IllegalPlay(r) ==
    \/ GameOf(Current, r.gameId) = NoGame
    \/ game.currentPlayerId # r.playerId
    \/ FailsValidation(r)

\* C7: a play-card request for an unknown game, from a player who is not
\* the current player, with a card not in the hand or breaking follow-suit,
\* and a start-game request from a non-host or with fewer than 2 users in
\* the room, leave the game state and every armed timer unchanged.
C7_IllegalRequestNoEffect ==
    [][(game' # game \/ ArmedTimers' # ArmedTimers)
       => /\ \A r \in PlayCardRequests :
               IllegalPlay(r) => ~PlayCard(r.from, r.gameId, r.playerId, r.card)
          /\ \A p \in UserIds :
               ~StartGameAccepted(p) => ~StartGame(p)]_vars

\* a play that breaks follow-suit was rejected while a turn timer is armed
C7_Witness ==
    /\ game # NoGame
    /\ game.leadSuit # NoSuit
    /\ playerTimers # {}
    /\ \E m \in outbox : m.ev = "game-error" /\ m.reason = MustFollow(game.leadSuit)

\* C8: every play-card request for an existing game that fails the
\* validation (not the player's turn, card not in hand, follow-suit broken,
\* unknown player) is answered by one rejection notice with the validator's
\* reason, sent to the requester and to nobody else.
C8_RejectionNotice ==
    [][\A r \in PlayCardRequests :
          (FailsValidation(r) /\ PlayCard(r.from, r.gameId, r.playerId, r.card))
          => outbox' = {[ev |-> "game-error", to |-> SocketOf(r.from),
                         reason |-> isMoveValid(game, r.playerId, r.card).message]}]_vars

\* the user a socket belongs to
OwnerOf(socket) == socket[2]

Snapshots == {m \in outbox : m.ev = "game-state-updated"}

\* the user is in the room
InRoom(userId) == HasRoom(Current) /\ FindUser(room.players, userId) # 0

\* C11: whatever disconnects and reconnects came before, every state
\* snapshot for a player of the room is addressed to the session id the
\* room holds for that player now (the one bound by the last reconnect),
\* never to one the player no longer owns.
C11_BroadcastToCurrentSession ==
    \A m \in Snapshots :
        InRoom(OwnerOf(m.to)) => m.to = SocketOf(OwnerOf(m.to))

\* C15: in every reachable state of a game, also after the turn of a
\* disconnected current player was skipped, currentTrick holds no two cards
\* of the same player.
C15_OneCardPerPlayer ==
    game # NoGame =>
        \A i, j \in 1..Len(game.currentTrick) :
            i # j => game.currentTrick[i].playerId # game.currentTrick[j].playerId

\* the hands of all players of the game are empty
AllHandsEmpty == \A i \in 1..Len(game.players) : game.players[i].hand = <<>>

\* C16: trick resolution marks the game finished (and announces game-over)
\* exactly when the hands of all its players are empty.
C16_FinishedIffHandsEmpty ==
    [][(TrickDelayElapses /\ game # NoGame /\ ~crashed')
       => ((\E m \in outbox' : m.ev = "game-over") <=> AllHandsEmpty)]_vars

\* the user is in the room and offline
Offline(userId) ==
    /\ HasRoom(Current)
    /\ \E i \in 1..Len(room.players) :
          room.players[i].id = userId /\ room.players[i].status = "offline"

\* the user is a player of the game
InGame(userId) == game # NoGame /\ FindPlayer(game.players, userId) # 0

HandOf(userId) == game.players[FindPlayer(game.players, userId)].hand

\* C17: while a player of the game is offline (from the disconnect until
\* the reconnect or the prune) no step takes a card from that player's hand:
\* neither a play-card request nor the autoplay of the turn timer.
C17_OfflineHandUntouched ==
    [][\A u \in UserIds :
          (Offline(u) /\ InGame(u) /\ Offline(u)' /\ InGame(u)')
          => HandOf(u)' = HandOf(u)]_vars

\* the user was dealt into the game and has been pruned from it
Pruned(userId) ==
    /\ game # NoGame
    /\ userId \in Range(game.turnOrder)
    /\ FindPlayer(game.players, userId) = 0

\* C19: in a game that goes on after a prune (at least 2 players are left)
\* the turn never comes to the pruned player: currentPlayerId is the sentinel
\* of a trick resolution or the id of a player still in the game.
C19_PrunedPlayerSkipped ==
    \A u \in UserIds : Pruned(u) => game.currentPlayerId # u

\* the grace timer of the user is about to prune the user from a game that
\* it leaves with fewer than 2 players
LastOpponentLeaves(userId) ==
    /\ ~crashed
    /\ userId \in reconnectionTimers
    /\ Offline(userId)
    /\ InGame(userId)
    /\ Len(game.players) <= 2

GameOverNotice == [ev |-> "game-over", to |-> RoomChannel, scores |-> <<>>]

\* C20: the prune that leaves the game with fewer than 2 players discards
\* the game in the same step and emits game-over with no scores; and a game
\* that is gone stays gone through every play-card request, turn timer and
\* trick-end delay that comes later: only start-game creates a game.
C20_PruneEndsGame ==
    [][/\ \A u \in UserIds :
             (LastOpponentLeaves(u) /\ GraceTimerFires(u))
             => (game' = NoGame /\ room'.gameId = NoGame.id /\ GameOverNotice \in outbox')
       /\ (game = NoGame /\ game' # NoGame) => starts' = starts + 1]_vars

\* the turn timer of the player who was left alone fires after the prune
\* ended the game
C20_Witness ==
    /\ game = NoGame
    /\ starts = 1
    /\ HasRoom(Current)
    /\ Len(room.players) = 1
    /\ room.gameId = NoGame.id
    /\ \E p \in UserIds : outbox = {TimerLine(p)}

\* the step appends a card of the player to the trick
CardAccepted(p) ==
    /\ game # NoGame
    /\ game' # NoGame
    /\ Len(game'.currentTrick) = Len(game.currentTrick) + 1
    /\ SubSeq(game'.currentTrick, 1, Len(game.currentTrick)) = game.currentTrick
    /\ game'.currentTrick[Len(game'.currentTrick)].playerId = p

\* the step removes the user from the room
PrunedNow(p) ==
    /\ HasRoom(Current)
    /\ FindUser(room.players, p) # 0
    /\ room' = RoomDeleted \/ FindUser(room'.players, p) = 0

\* the step ends the game: the final trick was resolved or the prune left
\* fewer than 2 players
GameEnds == game # NoGame /\ game' = NoGame

PlayerIds(players) == {players[i].id : i \in 1..Len(players)}

\* C22: the step that accepts a card of p leaves no turn timer of p armed,
\* the step that prunes p leaves no turn timer of p armed, and the step that
\* ends a game leaves no turn timer armed for any player of that game.
C22_TurnTimersCanceled ==
    [][/\ \A p \in UserIds : CardAccepted(p) => p \notin playerTimers'
       /\ \A p \in UserIds : PrunedNow(p) => p \notin playerTimers'
       /\ GameEnds => playerTimers' \cap PlayerIds(game.players) = {}]_vars

\* the part of the game a play changes: the hands, the scores, the trick
\* and the lead suit
PlayState(g) ==
    IF g = NoGame THEN g
    ELSE [hands |-> [i \in 1..Len(g.players) |-> g.players[i].hand],
          tricksWon |-> [i \in 1..Len(g.players) |-> g.players[i].tricksWon],
          currentTrick |-> g.currentTrick,
          leadSuit |-> g.leadSuit]

\* a completed trick awaits its resolution
AwaitingResolution ==
    game # NoGame /\ game.currentPlayerId = Sentinel /\ resolving > 0

\* C23: while a completed trick awaits its resolution, no play-card request
\* (from any live socket, in the name of any player or of the sentinel, with
\* any card) and no firing of an armed turn timer changes a hand, a score,
\* the trick or the lead suit.
C23_NoInputWhileResolving ==
    AwaitingResolution =>
        /\ \A from \in OnlineUsers, p \in UserIds \cup {Sentinel}, card \in DeckCards :
               PlayState(playCard(Current, SocketOf(from), TheGameId, p, card).game)
                   = PlayState(game)
        /\ \A p \in playerTimers :
               \A t \in triggerAutoPlay(
                            Log([Current EXCEPT !.playerTimers = @ \ {p}], <<"Timer", p>>), p) :
                   PlayState(t.game) = PlayState(game)

\* a turn timer has just fired while the completed trick awaits resolution
C23_Witness ==
    /\ AwaitingResolution
    /\ \E p \in UserIds : outbox = {TimerLine(p)}

\* the game waits for a card of the player
AwaitingPlay(s, p) == s.game # NoGame /\ s.game.currentPlayerId = p

\* the winner the trick-end callback computes
WinnerOf(g) == determineTrickWinner(g.currentTrick, g.leadSuit)

\* the server after the step
After ==
    [room |-> room', game |-> game', playerTimers |-> playerTimers',
     reconnectionTimers |-> reconnectionTimers', resolving |-> resolving',
     crashed |-> crashed', outbox |-> outbox']

\* C24: the step that accepts a card of p leaves the game waiting for the
\* player after p in turnOrder when the trick is still short of one card per
\* player, and waiting for the resolution when the trick has one card per
\* player; the trick-end delay of a game leaves the game finished or waiting
\* for the winner determineTrickWinner selects, who is a player of the game
\* with an armed turn timer.
C24_TurnTransitions ==
    [][/\ \A p \in UserIds :
             (CardAccepted(p) /\ game.currentPlayerId = p) =>
                 /\ Len(game'.currentTrick) < Len(game'.players)
                        => AwaitingPlay(After, getNextPlayerId(game))
                 /\ Len(game'.currentTrick) = Len(game'.players)
                        => (game'.currentPlayerId = Sentinel /\ resolving' = resolving + 1)
       /\ (resolving > 0 /\ game # NoGame /\ TrickDelayElapses) =>
             \/ game' = NoGame
             \/ /\ WinnerOf(game) # Thrown
                /\ AwaitingPlay(After, WinnerOf(game))
                /\ FindPlayer(game'.players, WinnerOf(game)) # 0
                /\ WinnerOf(game) \in playerTimers']_vars

\* the user is offline and the grace timer of the disconnect is pending
InGraceWindow(userId) == Offline(userId) /\ userId \in reconnectionTimers

\* the user is a member of the room with a live connection
Online(s, userId) ==
    /\ HasRoom(s)
    /\ \E i \in 1..Len(s.room.players) :
           s.room.players[i].id = userId /\ s.room.players[i].status = "online"

\* the snapshot a reconnect is answered with
Snapshot(s, userId) ==
    [ev |-> "game-state-updated",
     to |-> Socket(userId, s.room.players[FindUser(s.room.players, userId)].socketId),
     view |-> sanitizeGameStateForPlayer(s.game, userId)]

\* C25: a reconnect-player request of a user in the grace window marks the
\* user online, cancels the grace timer, keeps the user in the room and in
\* the game, and is answered on the new socket with the sanitized state of
\* the game in progress; and the grace timer only ever removes a user who
\* is offline.
C25_ReconnectCancelsPrune ==
    [][\A u \in UserIds :
          /\ (InGraceWindow(u) /\ reconnects' = reconnects + 1 /\ Reconnect(u)) =>
                /\ Online(After, u)
                /\ u \notin reconnectionTimers'
                /\ InGame(u) => InGame(u)'
                /\ game # NoGame => (game' = game /\ Snapshot(After, u) \in outbox')
          /\ PrunedNow(u) => Offline(u)]_vars

\* the one user who disconnected has just reconnected during the game
C25_Witness ==
    /\ game # NoGame
    /\ disconnects = 1
    /\ reconnects = 1
    /\ Len(room.players) = issued
    /\ \A i \in 1..Len(room.players) : room.players[i].status = "online"
    /\ \E u \in UserIds :
           /\ [ev |-> "player-reconnected", to |-> RoomChannel, userId |-> u] \in outbox
           /\ InGame(u)
           /\ Snapshot(Current, u) \in outbox

\* C27: in every state of a game the lead suit is null exactly when the
\* trick is empty, and the lead suit of a non-empty trick is the suit of its
\* first card.
C27_LeadSuitOfTrick ==
    game # NoGame =>
        /\ (game.leadSuit = NoSuit) <=> (game.currentTrick = <<>>)
        /\ game.currentTrick # <<>> => game.leadSuit = game.currentTrick[1].card.suit

\* a trick whose second card is off suit
C27_Witness ==
    /\ game # NoGame
    /\ Len(game.currentTrick) >= 2
    /\ game.currentTrick[2].card.suit # game.currentTrick[1].card.suit
    /\ game.leadSuit = game.currentTrick[1].card.suit

\* C28: in every state of a game the trick holds at most one card per
\* player of the game; it holds exactly one card per player only while the
\* current player is the sentinel and the one trick-end delay of that trick
\* is pending, and no trick-end delay is pending otherwise.
C28_TrickLength ==
    game # NoGame =>
        /\ Len(game.currentTrick) <= Len(game.players)
        /\ Len(game.currentTrick) = Len(game.players)
              => (game.currentPlayerId = Sentinel /\ resolving = 1)
        /\ Len(game.currentTrick) < Len(game.players) => resolving = 0

\* the TrickCards the step appends to the trick
PlayedNow ==
    IF /\ Len(game'.currentTrick) = Len(game.currentTrick) + 1
       /\ SubSeq(game'.currentTrick, 1, Len(game.currentTrick)) = game.currentTrick
    THEN {game'.currentTrick[Len(game'.currentTrick)]}
    ELSE {}

\* C29: within a game, every step that changes the game keeps for every
\* player who stays in the game the cards of the hand together with the card the step moves from
\* that hand to the trick: the trick is left alone, emptied by the
\* resolution or extended by exactly one card, which leaves the hand of the
\* player it is played for and no other hand; no hand holds a card twice
\* and no card is both in a hand and in the trick.
C29_CardConservation ==
    [][(game' # game /\ game # NoGame /\ game' # NoGame /\ starts' = starts) =>
          /\ \/ game'.currentTrick = game.currentTrick
             \/ game'.currentTrick = <<>>
             \/ PlayedNow # {}
          /\ \A u \in UserIds :
                (InGame(u) /\ InGame(u)') =>
                    LET mine == {t.card : t \in {x \in PlayedNow : x.playerId = u}} IN
                    /\ Range(HandOf(u)') \cup mine = Range(HandOf(u))
                    /\ Len(HandOf(u)') + Cardinality(mine) = Len(HandOf(u))
                    /\ Cardinality(Range(HandOf(u)')) = Len(HandOf(u)')
                    /\ Range(HandOf(u)') \cap TrickCards(game'.currentTrick) = {}
          /\ \A t \in PlayedNow : InGame(t.playerId)]_vars

\* the second trick is under way: cards lie in resolved tricks, in the
\* current trick and in the hands
C29_Witness ==
    /\ game # NoGame
    /\ game.trickNumber = 2
    /\ game.currentTrick # <<>>
    /\ \E i \in 1..Len(game.players) : game.players[i].hand # <<>>

\* C30: in every state of a game turnOrder lists the ids of the players of
\* the game, each once and no other id.
C30_TurnOrderIsThePlayers ==
    game # NoGame =>
        /\ Range(game.turnOrder) = PlayerIds(game.players)
        /\ Len(game.turnOrder) = Len(game.players)
        /\ Cardinality(Range(game.turnOrder)) = Len(game.turnOrder)

\* C31: whenever a game waits for a card of a player (the current player
\* is not the sentinel), the turn timer of that player is armed.
C31_TurnTimerArmed ==
    (game # NoGame /\ game.currentPlayerId # Sentinel)
        => game.currentPlayerId \in playerTimers

AutoPlayLine(p, card) ==
    [ev |-> "log", to |-> Console, line |-> <<"AutoPlay", p, card.rank, card.suit>>]

\* C33: in every reachable state, every card triggerAutoPlay can play for a
\* player passes isMoveValid for that player in that state: it is in the
\* player's hand, it is the player's turn and the card follows suit when the
\* hand can.
C33_AutoPlayIsLegal ==
    \A p \in UserIds :
        \A card \in AutoPlayChoices(Current, p) :
            isMoveValid(game, p, card).valid

\* autoplay has just followed suit for a player who also held another suit
C33_Witness ==
    /\ game # NoGame
    /\ Len(game.currentTrick) >= 2
    /\ LET last == game.currentTrick[Len(game.currentTrick)] IN
          /\ AutoPlayLine(last.playerId, last.card) \in outbox
          /\ last.card.suit = game.leadSuit
          /\ InGame(last.playerId)
          /\ \E c \in Range(HandOf(last.playerId)) : c.suit # game.leadSuit

-----------------------------------------------------------------------------
(* SpecTimers: the server whose armed timers all fire in the end *)

\* the server with the room of the first two users, as create-room and
\* join-room leave it
RoomOfTwo ==
    [room |-> [id |-> "R",
               players |-> [i \in 1..2 |->
                              [id |-> Users[i], socketId |-> 0, isHost |-> i = 1,
                               status |-> "online"]],
               hostId |-> Users[1], gameId |-> NoGame.id, maxPlayers |-> 3],
     game |-> NoGame, playerTimers |-> {}, reconnectionTimers |-> {}, resolving |-> 0,
     crashed |-> FALSE, outbox |-> {}]

\* the decks the game of two is dealt from
TimerDecks ==
    {OrderedDeck, [i \in 1..Len(OrderedDeck) |-> OrderedDeck[Len(OrderedDeck) + 1 - i]]}

\* the host has just started the game
InitTimers ==
    \E deck \in TimerDecks :
        LET s == startGame(RoomOfTwo, Users[1], deck) IN
        /\ room = s.room
        /\ game = s.game
        /\ playerTimers = s.playerTimers
        /\ reconnectionTimers = s.reconnectionTimers
        /\ resolving = s.resolving
        /\ crashed = s.crashed
        /\ outbox = s.outbox
        /\ issued = 2
        /\ starts = 1
        /\ disconnects = 0
        /\ reconnects = 0
        /\ ret = NoRet

\* the play-card requests of the players' own clients for the game
OwnRequests == {r \in PlayCardRequests : r.from = r.playerId /\ r.gameId = TheGameId}

NextTimers ==
    \/ \E r \in OwnRequests : PlayCard(r.from, r.gameId, r.playerId, r.card)
    \/ \E playerId \in UserIds : TurnTimerFires(playerId)
    \/ TrickDelayElapses
    \/ \E userId \in UserIds : Disconnect(userId)
    \/ \E userId \in UserIds : Reconnect(userId)
    \/ \E userId \in UserIds : GraceTimerFires(userId)

\* every armed timer fires unless it is cleared
TimersRun ==
    /\ WF_vars(TrickDelayElapses)
    /\ \A u \in UserIds : WF_vars(TurnTimerFires(u))
    /\ \A u \in UserIds : WF_vars(GraceTimerFires(u))

SpecTimers == InitTimers /\ [][NextTimers]_vars /\ TimersRun

\* C18: a player who disconnects does not stay offline for ever: if the
\* player does not reconnect, the grace timer removes the player from the
\* room and the game, whatever plays, autoplays, turn advances or trick
\* resolutions happen in the meantime.
C18_OfflineEventuallyPruned ==
    \A u \in UserIds : Offline(u) ~> ~Offline(u)

\* C32: with every armed timer firing in the end, a game that has started
\* ends: it finishes after the final trick or is discarded by a prune, for
\* every sequence of plays, disconnects, reconnects and prunes, and with no
\* play-card request at all.
C32_GameEventuallyEnds ==
    (game # NoGame) ~> (game = NoGame)

-----------------------------------------------------------------------------
(* SpecRestart: the server with a game of two in progress whose host can   *)
(* send start-game once more                                               *)

\* the game of two has just started; starts counts the start-game requests
\* accepted from here on
InitRestart ==
    \E deck \in TimerDecks :
        LET s == startGame(RoomOfTwo, Users[1], deck) IN
        /\ room = s.room
        /\ game = s.game
        /\ playerTimers = s.playerTimers
        /\ reconnectionTimers = s.reconnectionTimers
        /\ resolving = s.resolving
        /\ crashed = s.crashed
        /\ outbox = s.outbox
        /\ issued = 2
        /\ starts = 0
        /\ disconnects = 0
        /\ reconnects = 0
        /\ ret = NoRet

NextRestart ==
    \/ \E playerId \in UserIds : StartGame(playerId)
    \/ \E r \in OwnRequests : PlayCard(r.from, r.gameId, r.playerId, r.card)
    \/ \E playerId \in UserIds : TurnTimerFires(playerId)
    \/ TrickDelayElapses
    \/ \E userId \in UserIds : Disconnect(userId)
    \/ \E userId \in UserIds : Reconnect(userId)
    \/ \E userId \in UserIds : GraceTimerFires(userId)

SpecRestart == InitRestart /\ [][NextRestart]_vars

\* C21: whenever a trick-end delay is pending for a game that exists, the
\* trick holds at least one card, the lead suit is set and a card of the
\* trick has the lead suit, so that determineTrickWinner finds a winner.
C21_ResolutionHasLeadCard ==
    (resolving > 0 /\ game # NoGame) =>
        /\ game.currentTrick # <<>>
        /\ game.leadSuit # NoSuit
        /\ \E i \in 1..Len(game.currentTrick) :
               game.currentTrick[i].card.suit = game.leadSuit

-----------------------------------------------------------------------------
(* SpecSanitize: the sanitized views of every input game, computed for a    *)
(* target, broadcast to the players and sent to a reconnecting user         *)

\* the hands of the other player of the input games
OtherHands == Hands(MaxHand - 1)

SanitizeInputs(hands) ==
    {InputGame(<<mine, theirs>>, trick, Users[1]) :
        mine \in Hands(1), theirs \in hands, trick \in TricksBy(1, 2)}

InitSanitize ==
    \E g \in SanitizeInputs(OtherHands) :
        /\ Range(g.players[1].hand) \cap Range(g.players[2].hand) = {}
        /\ TrickCards(g.currentTrick) \cap
              (Range(g.players[1].hand) \cup Range(g.players[2].hand)) = {}
        /\ InputServer(g)

Sanitize(targetPlayerId) ==
    /\ ret' = [fn |-> "sanitizeGameStateForPlayer", target |-> targetPlayerId,
               view |-> sanitizeGameStateForPlayer(game, targetPlayerId)]
    /\ ServerUnchanged

Broadcast ==
    /\ Becomes(Emit(Current, broadcastGameState(game)))
    /\ UNCHANGED <<issued, starts, disconnects, reconnects, ret>>

NextSanitize ==
    /\ ret = NoRet
    /\ outbox = {}
    /\ \/ \E targetPlayerId \in UserIds : Sanitize(targetPlayerId)
       \/ Broadcast
       \/ \E userId \in UserIds : Reconnect(userId)

SpecSanitize == InitSanitize /\ [][NextSanitize]_vars

Sanitized == ret.fn = "sanitizeGameStateForPlayer"

\* the view keeps every field of the state but the players
SameButPlayers(view, state) ==
    /\ DOMAIN view = DOMAIN state
    /\ \A f \in DOMAIN state \ {"players"} : view[f] = state[f]

\* the view keeps every field of the player but the hand
SameButHand(seen, player) ==
    /\ DOMAIN seen = DOMAIN player
    /\ \A f \in DOMAIN player \ {"hand"} : seen[f] = player[f]

SanitizedView ==
    Sanitized =>
        /\ SameButPlayers(ret.view, game)
        /\ Len(ret.view.players) = Len(game.players)
        /\ \A i \in 1..Len(game.players) :
              /\ SameButHand(ret.view.players[i], game.players[i])
              /\ IF game.players[i].id = ret.target
                 THEN ret.view.players[i].hand = game.players[i].hand
                 ELSE /\ Len(ret.view.players[i].hand) = Len(game.players[i].hand)
                      /\ \A j \in 1..Len(game.players[i].hand) :
                            ret.view.players[i].hand[j] = Card("spades", "2")

\* C9: the sanitized view for a player equals the state in every field but
\* the hands; the player's own hand is unchanged, every other hand is as many
\* placeholder cards (2 of spades); the state itself is not modified.
C9_SanitizedView ==
    /\ []SanitizedView
    /\ [][ret'.fn = "sanitizeGameStateForPlayer" => game' = game]_vars

\* a view for a player that holds a card, of a game whose other player holds
\* two cards, none of them the placeholder
C9_Witness ==
    /\ Sanitized
    /\ ret.target = Users[1]
    /\ Len(game.players[1].hand) = 1
    /\ ret.view.players[1].hand = game.players[1].hand
    /\ Len(game.players[2].hand) = 2
    /\ \A j \in 1..2 : game.players[2].hand[j] # Card("spades", "2")
    /\ ret.view.players[2].hand = <<Card("spades", "2"), Card("spades", "2")>>
    /\ game.currentTrick # <<>>

\* the states that differ from the state only in the cards of the hand of
\* one player other than the target
Alternatives(state, targetPlayerId) ==
    UNION {{[state EXCEPT !.players[i].hand = hand] :
               hand \in {h \in OtherHands : Len(h) = Len(state.players[i].hand)}} :
           i \in {j \in 1..Len(state.players) : state.players[j].id # targetPlayerId}}

\* C10: the sanitized view for X is the same in any two states that differ
\* only in the cards (not the number) of other players' hands, so no state
\* snapshot sent to X, on broadcast or on reconnect, depends on them.
C10_NonInterference ==
    /\ Sanitized =>
          \A other \in Alternatives(game, ret.target) :
              sanitizeGameStateForPlayer(other, ret.target) = ret.view
    /\ \A m \in Snapshots :
          \A other \in Alternatives(game, OwnerOf(m.to)) :
              \E n \in StateMessages(other) \cup
                        {[ev |-> "game-state-updated", to |-> m.to,
                          view |-> sanitizeGameStateForPlayer(other, OwnerOf(m.to))]} :
                  n = m

\* a reconnecting user was sent the snapshot of a game in which another
\* player holds two cards
C10_Witness ==
    /\ \E n \in outbox : n.ev = "player-reconnected"
    /\ \E m \in Snapshots :
          \E i \in 1..Len(game.players) :
              /\ game.players[i].id # OwnerOf(m.to)
              /\ Len(game.players[i].hand) = 2
              /\ m.view.players[i].hand # game.players[i].hand
              /\ Cardinality(Alternatives(game, OwnerOf(m.to))) > 2

-----------------------------------------------------------------------------
(* SpecTrickWin: processTrickWin applied to every input game and winner *)

\* the tricks won so far by the two players of an input game
WonSoFar == {<<0, 0>>, <<1, 0>>, <<0, 1>>, <<1, 1>>}

\* the hands of at most one card
SingleHands == Hands(1)

\* the tricks of at most one card, led by the second player
LedTricks == TricksBy(1, 2)

TrickWinInputs(hands) ==
    {[InputGame(<<h1, h2>>, trick, Sentinel) EXCEPT
            !.players[1].tricksWon = won[1], !.players[2].tricksWon = won[2]] :
        h1 \in hands, h2 \in hands, trick \in LedTricks, won \in WonSoFar}

InitTrickWin ==
    \E g \in TrickWinInputs(SingleHands) :
        /\ Range(g.players[1].hand) \cap Range(g.players[2].hand) = {}
        /\ TrickCards(g.currentTrick) \cap
              (Range(g.players[1].hand) \cup Range(g.players[2].hand)) = {}
        /\ InputServer(g)

TrickWon(winningPlayerId) ==
    /\ ret' = [fn |-> "processTrickWin", winningPlayerId |-> winningPlayerId,
               result |-> processTrickWin(game, winningPlayerId)]
    /\ ServerUnchanged

NextTrickWin ==
    /\ ret = NoRet
    /\ \E i \in 1..Len(game.players) : TrickWon(game.players[i].id)

SpecTrickWin == InitTrickWin /\ [][NextTrickWin]_vars

\* C12: processTrickWin for a winner who is a player of the game adds
\* exactly 1 to the winner's tricksWon, keeps every other player's tricksWon
\* and every hand, empties currentTrick, clears leadSuit, makes the winner
\* the current player and adds exactly 1 to trickNumber.
C12_TrickWinFrame ==
    ret.fn = "processTrickWin" =>
        /\ Len(ret.result.players) = Len(game.players)
        /\ \A i \in 1..Len(game.players) :
              /\ ret.result.players[i].id = game.players[i].id
              /\ ret.result.players[i].hand = game.players[i].hand
              /\ ret.result.players[i].tricksWon =
                    IF game.players[i].id = ret.winningPlayerId
                    THEN game.players[i].tricksWon + 1
                    ELSE game.players[i].tricksWon
        /\ ret.result.currentTrick = <<>>
        /\ ret.result.leadSuit = NoSuit
        /\ ret.result.currentPlayerId = ret.winningPlayerId
        /\ ret.result.trickNumber = game.trickNumber + 1

\* the second player won a trick that holds a card, with a trick won before
\* by each player and cards left in both hands
C12_Witness ==
    /\ ret.fn = "processTrickWin"
    /\ ret.winningPlayerId = Users[2]
    /\ game.currentTrick # <<>>
    /\ game.leadSuit # NoSuit
    /\ game.players[1].tricksWon = 1 /\ ret.result.players[1].tricksWon = 1
    /\ game.players[2].tricksWon = 1 /\ ret.result.players[2].tricksWon = 2
    /\ game.players[1].hand # <<>> /\ game.players[2].hand # <<>>

-----------------------------------------------------------------------------
(* SpecTurnOrder: getNextPlayerId applied again and again, from every      *)
(* player of every turn order                                              *)

\* the turn orders: the users of a game, from any of them on
TurnOrders == UNION {Orderings(S) : S \in SUBSET UserIds \ {{}}}

InitTurnOrder ==
    \E turnOrder \in TurnOrders, currentPlayerId \in UserIds :
        /\ currentPlayerId \in Range(turnOrder)
        /\ InputServer([InputGame([i \in 1..Len(turnOrder) |-> <<>>], <<>>, currentPlayerId)
                           EXCEPT !.turnOrder = turnOrder])

\* currentPlayerId = getNextPlayerId(gameState); ret keeps where the walk
\* started and the players it came to
NextTurnOrder ==
    /\ ret # NoRet => Len(ret.visited) < 2 * Len(game.turnOrder)
    /\ game' = [game EXCEPT !.currentPlayerId = getNextPlayerId(game)]
    /\ ret' = [fn |-> "getNextPlayerId",
               start |-> IF ret = NoRet THEN game.currentPlayerId ELSE ret.start,
               visited |-> Append(IF ret = NoRet THEN <<>> ELSE ret.visited,
                                  getNextPlayerId(game))]
    /\ UNCHANGED <<room, issued, playerTimers, reconnectionTimers, resolving,
                   crashed, starts, disconnects, reconnects, outbox>>

SpecTurnOrder == InitTurnOrder /\ [][NextTurnOrder]_vars

\* C13: from any player of turnOrder, setting currentPlayerId to
\* getNextPlayerId again and again comes to every player of turnOrder
\* exactly once and is back at the start after exactly turnOrder.length
\* applications, not earlier.
C13_TurnOrderCycle ==
    ret.fn = "getNextPlayerId" =>
        LET n == Len(game.turnOrder)
            visited == ret.visited
            first == 1..(IF Len(visited) < n THEN Len(visited) ELSE n)
        IN /\ game.currentPlayerId = visited[Len(visited)]
           /\ \A k \in 1..Len(visited) : (visited[k] = ret.start) <=> (k % n = 0)
           /\ \A j, k \in first : j # k => visited[j] # visited[k]
           /\ Len(visited) >= n => {visited[k] : k \in first} = Range(game.turnOrder)

\* the walk over a turn order of three, started at its second player, is
\* back at the start after three applications
C13_Witness ==
    /\ ret.fn = "getNextPlayerId"
    /\ Len(game.turnOrder) = 3
    /\ ret.start = game.turnOrder[2]
    /\ Len(ret.visited) = 3
    /\ ret.visited = <<game.turnOrder[3], game.turnOrder[1], game.turnOrder[2]>>
    /\ game.currentPlayerId = ret.start

-----------------------------------------------------------------------------
(* SpecDeal: dealCards applied to every ordering of every deck, for 2, 3   *)
(* and 4 players                                                           *)

\* the decks of at most n distinct cards, in every order
DealDecks(cards, n) ==
    UNION {Orderings(S) : S \in {T \in SUBSET cards : Cardinality(T) <= n}}

\* the cards the dealt decks are made of
DealtCards == {c \in Cards : c.suit \in Range(DeckSuits)}

InitDeal == InputServer(InputGame(<<<<>>, <<>>>>, <<>>, Users[1]))

Deal(deck, numPlayers) ==
    /\ ret' = [fn |-> "dealCards", deck |-> deck, numPlayers |-> numPlayers,
               hands |-> dealCards(deck, numPlayers)]
    /\ ServerUnchanged

NextDeal ==
    /\ ret = NoRet
    /\ \E deck \in DealDecks(DealtCards, MaxHand + 2), numPlayers \in {2, 3, 4} :
          Deal(deck, numPlayers)

SpecDeal == InitDeal /\ [][NextDeal]_vars

\* C14: for 2, 3 and 4 players and every ordering of a deck of distinct
\* cards, dealCards returns as many hands as players, each of
\* floor(deck.length / n) cards, without a duplicate and pairwise disjoint;
\* the cards dealt are the first floor(deck.length / n) * n of the deck, so
\* the last deck.length mod n cards are in no hand.
C14_DealPartitions ==
    ret.fn = "dealCards" =>
        LET n == ret.numPlayers
            each == Len(ret.deck) \div n
            hands == ret.hands
        IN /\ Len(hands) = n
           /\ \A k \in 1..n :
                 /\ Len(hands[k]) = each
                 /\ Cardinality(Range(hands[k])) = each
           /\ \A j, k \in 1..n : j # k => Range(hands[j]) \cap Range(hands[k]) = {}
           /\ UNION {Range(hands[k]) : k \in 1..n} = {ret.deck[i] : i \in 1..(each * n)}
           /\ \A i \in (each * n + 1)..Len(ret.deck) :
                 \A k \in 1..n : ret.deck[i] \notin Range(hands[k])

\* five cards were dealt to two players: two cards each, the last card of
\* the deck to nobody
C14_Witness ==
    /\ ret.fn = "dealCards"
    /\ ret.numPlayers = 2
    /\ Len(ret.deck) = 5
    /\ Len(ret.hands[1]) = 2 /\ Len(ret.hands[2]) = 2
    /\ Range(ret.hands[1]) = {ret.deck[1], ret.deck[3]}
    /\ Range(ret.hands[2]) = {ret.deck[2], ret.deck[4]}
    /\ ret.hands[1] # <<ret.deck[1], ret.deck[3]>>

-----------------------------------------------------------------------------
(* SpecSetup: setupNewGame on every participant list and deck *)

\* the participant lists: the first n users in joining order, the one at
\* position host being the host (none when host = 0)
PlayerLists ==
    {[i \in 1..n |-> [id |-> Users[i], socketId |-> 0, isHost |-> i = host,
                      status |-> "online"]] :
        n \in 2..Len(Users), host \in 0..Len(Users)}

InitSetup == InputServer(InputGame(<<<<>>, <<>>>>, <<>>, Users[1]))

Setup(playerList, deck) ==
    /\ ret' = [fn |-> "setupNewGame", playerList |-> playerList, deck |-> deck,
               game |-> setupNewGame(playerList, TheGameId, 4, deck)]
    /\ ServerUnchanged

NextSetup ==
    /\ ret = NoRet
    /\ \E playerList \in PlayerLists, deck \in DealDecks(DealtCards, MaxHand + 1) :
          Setup(playerList, deck)

SpecSetup == InitSetup /\ [][NextSetup]_vars

TwoOfClubs == Card("clubs", "2")

\* the sequence rotated left by k places
Rotated(seq, k) == [i \in 1..Len(seq) |-> seq[((i - 1 + k) % Len(seq)) + 1]]

\* the starting player the rule names: the holder of the two of clubs, else
\* the host, else the first participant
StartingPlayer(list, hands) ==
    IF \E i \in 1..Len(list) : TwoOfClubs \in Range(hands[i])
    THEN list[CHOOSE i \in 1..Len(list) : TwoOfClubs \in Range(hands[i])].id
    ELSE IF \E i \in 1..Len(list) : list[i].isHost
    THEN list[CHOOSE i \in 1..Len(list) : list[i].isHost].id
    ELSE list[1].id

\* C26: the game setupNewGame returns is playing, at trick 1 of round 1,
\* with an empty deck field, an empty trick and no lead suit; every player
\* holds the dealt hand and has won no trick; the starting player is the
\* holder of the two of clubs, else the host, else the first participant;
\* turnOrder is the participant list rotated to start with that player, who
\* is the current player.
C26_NewGame ==
    ret.fn = "setupNewGame" =>
        LET g == ret.game
            list == ret.playerList
            n == Len(list)
            hands == dealCards(ret.deck, n)
            ids == [i \in 1..n |-> list[i].id]
            first == StartingPlayer(list, hands)
        IN /\ g.status = "playing"
           /\ g.trickNumber = 1
           /\ g.round = 1
           /\ g.deck = <<>>
           /\ g.currentTrick = <<>>
           /\ g.leadSuit = NoSuit
           /\ Len(g.players) = n
           /\ \A i \in 1..n :
                 /\ g.players[i].id = list[i].id
                 /\ g.players[i].hand = hands[i]
                 /\ g.players[i].tricksWon = 0
           /\ g.currentPlayerId = first
           /\ g.turnOrder[1] = first
           /\ \E k \in 0..(n - 1) : g.turnOrder = Rotated(ids, k)

\* the second of three participants holds the two of clubs and starts,
\* though the first is the host
C26_Witness ==
    /\ ret.fn = "setupNewGame"
    /\ Len(ret.playerList) = 3
    /\ ret.playerList[1].isHost
    /\ TwoOfClubs \in Range(ret.game.players[2].hand)
    /\ ret.game.turnOrder = <<Users[2], Users[3], Users[1]>>

=============================================================================
